---- MODULE Spec2Model ----
(***************************************************************************)
(* A model of the brainfinterpreter (src/src/main.rs): the Tokenizer, the  *)
(* Memory and the Brain (the interpreter loop), with standard input and    *)
(* standard output as sequences.                                           *)
(*                                                                         *)
(* Indices are 0-based as in the source; TLA+ sequences are 1-based, so    *)
(* the element at index i of a Vec v is v[i + 1].                          *)
(***************************************************************************)
EXTENDS Integers, Sequences, FiniteSets, TLC

VARIABLES
    status,           \* "start" (before main), "running", "exited", "panicked"
    panic_message,    \* the panic's message, "" while there is none
    overflow_checks,  \* the build profile: TRUE (debug) panics on overflow
    source,           \* Tokenizer.input: the characters of the source text
    instructions,     \* Brain.instructions
    program_counter,  \* Brain.program_counter
    address_pointer,  \* Brain.address_pointer
    cells,            \* Brain.memory.cells
    stdin,            \* the bytes standard input still holds
    stdout,           \* the characters (by code) printed so far
    previous_counter, \* history: program_counter when the last tick began
    stdin_read        \* history: the bytes read from standard input so far

vars == <<status, panic_message, overflow_checks, source, instructions,
          program_counter, address_pointer, cells, stdin, stdout,
          previous_counter, stdin_read>>

----------------------------------------------------------------------------
(* Bounds of the model *)

\* Every source text of at most this many characters is an input.
MaxSourceLen == 3

\* Standard input holds at most this many bytes.
MaxInputLen == 1

\* A run is followed until it has printed this many characters.
MaxOutputLen == 3

----------------------------------------------------------------------------
(* Integer widths *)

\* u8: the cells hold values modulo 2^8.
U8_MODULUS == 256

\* usize: Rust guarantees at least 16 bits; the narrowest width is the one
\* where a wrapped pointer is closest to a valid index.
USIZE_MODULUS == 65536

USIZE_MAX == USIZE_MODULUS - 1

----------------------------------------------------------------------------
(* Inputs *)

Recognized == {"<", ">", "+", "-", ".", ",", "[", "]"}

\* One character outside the eight symbols stands for all of them.
Alphabet == Recognized \cup {"x"}

InputBytes == {0, 65, 255}

SeqsUpTo(S, n) == UNION {[1..k -> S] : k \in 0..n}

\* Longer programs: nested loops, a loop that counts a cell round to 0.
LongSources ==
    { <<"[", "[", "]", "]", "+">>,
      <<"[", "]", "]", "+">>,
      <<"+", "[", "[", "-", "]", "+", "]">>,
      <<"+", "[", "-", "[", "]", "+", "]">>,
      <<"+", "[", "+", "]">>,
      <<"+", "x", "[", "-", "]", ".">>,
      <<"+", "+", "[", ">", "+", "[", "-", "]", "<", "-", "]">> }

\* The source of n Increments and an Output.
IncrementsThenOutput(n) == [k \in 1..(n + 1) |-> IF k <= n THEN "+" ELSE "."]

\* With the short sources, a run of Increments up to the greatest cell value.
IncrementCounts == {4, 255}

Sources ==
    SeqsUpTo(Alphabet, MaxSourceLen) \cup LongSources
        \cup {IncrementsThenOutput(n) : n \in IncrementCounts}

Inputs == SeqsUpTo(InputBytes, MaxInputLen)

----------------------------------------------------------------------------
(* Tokenizer *)

\* Option::None where the value is a token.
None == "None"

\* Option::None where the value is an index.
NO_INDEX == -1

Token == {"AngleBracketOpen", "AngleBracketClose", "Plus", "Minus",
          "Dot", "Comma", "BracketOpen", "BracketClose"}

\* The closure with the arms of < and > exchanged.
TokenOfSwapped(char) ==
    CASE char = "<" -> "AngleBracketClose"
      [] char = ">" -> "AngleBracketOpen"
      [] char = "+" -> "Plus"
      [] char = "-" -> "Minus"
      [] char = "." -> "Dot"
      [] char = "," -> "Comma"
      [] char = "[" -> "BracketOpen"
      [] char = "]" -> "BracketClose"
      [] OTHER -> None

\* The closure of tokenize's filter_map.
TokenOf(char) ==
    CASE char = "<" -> "AngleBracketOpen"
      [] char = ">" -> "AngleBracketClose"
      [] char = "+" -> "Plus"
      [] char = "-" -> "Minus"
      [] char = "." -> "Dot"
      [] char = "," -> "Comma"
      [] char = "[" -> "BracketOpen"
      [] char = "]" -> "BracketClose"
      [] OTHER -> None

\* filter_map keeps, in order, the tokens of the characters that have one.
\* The recursion halves the input, which keeps it shallow on a long source:
\* the tokens of a text are those of its first part, then those of the rest.
RECURSIVE tokenize(_)
tokenize(input) ==
    IF input = <<>> THEN <<>>
    ELSE IF Len(input) = 1
    THEN LET token == TokenOf(Head(input))
         IN  IF token = None THEN <<>> ELSE <<token>>
    ELSE LET half == Len(input) \div 2
         IN  tokenize(SubSeq(input, 1, half))
                 \o tokenize(SubSeq(input, half + 1, Len(input)))

----------------------------------------------------------------------------
(* Memory *)

\* A memory that is never empty: vec![0; size.max(1)].
MemoryNewAtLeastOne(size) == [i \in 1..(IF size = 0 THEN 1 ELSE size) |-> 0]

MemoryNew(size) == [i \in 1..size |-> 0]

MemoryLen == Len(cells)

\* cells[index] panics when index is no index of cells.
IndexInBounds(index) == index < Len(cells)

MemoryGet(index) == cells[index + 1]

\* A set that writes the first cell whatever the index.
MemorySetFirst(index, value) == [cells EXCEPT ![1] = value]

MemorySet(index, value) == [cells EXCEPT ![index + 1] = value]

INDEX_PANIC == "index out of bounds"

----------------------------------------------------------------------------
(* main *)

\* A count of every token, for the count of the Plus tokens.
cell_count_all(tokens) == Len(tokens)

\* filter(..).count(): the number of Plus tokens, by halves as in tokenize.
RECURSIVE cell_count(_)
cell_count(tokens) ==
    IF tokens = <<>> THEN 0
    ELSE IF Len(tokens) = 1
    THEN (IF Head(tokens) = "Plus" THEN 1 ELSE 0)
    ELSE LET half == Len(tokens) \div 2
         IN  cell_count(SubSeq(tokens, 1, half))
                 + cell_count(SubSeq(tokens, half + 1, Len(tokens)))

Init ==
    /\ status = "start"
    /\ panic_message = ""
    /\ overflow_checks \in BOOLEAN
    /\ source \in Sources
    /\ instructions = <<>>
    /\ program_counter = 0
    /\ address_pointer = 0
    /\ cells = <<>>
    /\ stdin \in Inputs
    /\ stdout = <<>>
    /\ previous_counter = NO_INDEX
    /\ stdin_read = <<>>

\* main up to the call of brain.run(): tokenize, size the memory, Brain::new.
main ==
    /\ status = "start"
    /\ LET tokens == tokenize(source) IN
         /\ instructions' = tokens
         /\ cells' = MemoryNew(cell_count(tokens))
    /\ program_counter' = 0
    /\ address_pointer' = 0
    /\ status' = "running"
    /\ UNCHANGED <<panic_message, overflow_checks, source, stdin, stdout,
                   previous_counter, stdin_read>>

----------------------------------------------------------------------------
(* Brain *)

\* A panic ends the run where it is.
Panic(message) ==
    /\ status' = "panicked"
    /\ panic_message' = message
    /\ program_counter' = program_counter

\* A tick without its last statement: the counter stays where the dispatch
\* left it.
AdvanceNot(pc) ==
    /\ program_counter' = pc
    /\ UNCHANGED <<status, panic_message>>

\* A tick that adds 1 only where the dispatch left the counter alone.
AdvanceUnlessJumped(pc) ==
    /\ program_counter' = IF pc = program_counter THEN pc + 1 ELSE pc
    /\ UNCHANGED <<status, panic_message>>

\* tick's last statement, after a dispatch that left the program counter at pc.
Advance(pc) ==
    /\ program_counter' = pc + 1
    /\ UNCHANGED <<status, panic_message>>

\* instructions.get(index)
InstructionsGet(index) ==
    IF index < Len(instructions) THEN instructions[index + 1] ELSE None

\* A loop test that lets the counter reach the length: <= for <.
RunConditionInclusive == program_counter <= Len(instructions)

\* run's loop test.
RunCondition == program_counter < Len(instructions)

\* run calls tick, tick fetches the instruction and its match selects the arm
\* of token. The program and the build are the same after every operation.
Dispatch(token) ==
    /\ status = "running"
    /\ RunCondition
    /\ InstructionsGet(program_counter) = token
    /\ previous_counter' = program_counter
    /\ UNCHANGED <<overflow_checks, source, instructions>>

\* A MoveLeft that stays at 0: saturating_sub for the subtraction.
move_left_saturating ==
    /\ Dispatch("AngleBracketOpen")
    /\ LET pointer == IF address_pointer = 0 THEN 0 ELSE address_pointer - 1 IN
         /\ address_pointer' = pointer
         /\ IF pointer > MemoryLen
            THEN Panic("Out of bounds")
            ELSE Advance(program_counter)
    /\ UNCHANGED <<cells, stdin, stdout, stdin_read>>

move_left ==
    /\ Dispatch("AngleBracketOpen")
    /\ IF address_pointer = 0 /\ overflow_checks
       THEN /\ Panic("attempt to subtract with overflow")
            /\ UNCHANGED address_pointer
       ELSE LET pointer == (address_pointer - 1) % USIZE_MODULUS IN
            /\ address_pointer' = pointer
            /\ IF pointer > MemoryLen
               THEN Panic("Out of bounds")
               ELSE Advance(program_counter)
    /\ UNCHANGED <<cells, stdin, stdout, stdin_read>>

\* A MoveRight with no check of the pointer.
move_right_unchecked ==
    /\ Dispatch("AngleBracketClose")
    /\ address_pointer' = address_pointer + 1
    /\ Advance(program_counter)
    /\ UNCHANGED <<cells, stdin, stdout, stdin_read>>

move_right ==
    /\ Dispatch("AngleBracketClose")
    /\ LET pointer == address_pointer + 1 IN
         /\ address_pointer' = pointer
         /\ IF pointer > MemoryLen
            THEN Panic("Out of bounds")
            ELSE Advance(program_counter)
    /\ UNCHANGED <<cells, stdin, stdout, stdin_read>>

\* An Increment that computes the sum and does not store it.
increment_no_store ==
    /\ Dispatch("Plus")
    /\ IF ~IndexInBounds(address_pointer)
       THEN Panic(INDEX_PANIC)
       ELSE LET value == MemoryGet(address_pointer) + 1 IN
            IF value >= U8_MODULUS /\ overflow_checks
            THEN Panic("attempt to add with overflow")
            ELSE Advance(program_counter)
    /\ UNCHANGED <<address_pointer, cells, stdin, stdout, stdin_read>>

increment ==
    /\ Dispatch("Plus")
    /\ IF ~IndexInBounds(address_pointer)
       THEN Panic(INDEX_PANIC) /\ UNCHANGED cells
       ELSE LET value == MemoryGet(address_pointer) + 1 IN
            IF value >= U8_MODULUS /\ overflow_checks
            THEN Panic("attempt to add with overflow") /\ UNCHANGED cells
            ELSE /\ cells' = MemorySet(address_pointer, value % U8_MODULUS)
                 /\ Advance(program_counter)
    /\ UNCHANGED <<address_pointer, stdin, stdout, stdin_read>>

decrement ==
    /\ Dispatch("Minus")
    /\ IF ~IndexInBounds(address_pointer)
       THEN Panic(INDEX_PANIC) /\ UNCHANGED cells
       ELSE LET value == MemoryGet(address_pointer) - 1 IN
            IF value < 0 /\ overflow_checks
            THEN Panic("attempt to subtract with overflow") /\ UNCHANGED cells
            ELSE /\ cells' = MemorySet(address_pointer, value % U8_MODULUS)
                 /\ Advance(program_counter)
    /\ UNCHANGED <<address_pointer, stdin, stdout, stdin_read>>

output ==
    /\ Dispatch("Dot")
    /\ Len(stdout) < MaxOutputLen
    /\ IF ~IndexInBounds(address_pointer)
       THEN Panic(INDEX_PANIC) /\ UNCHANGED stdout
       ELSE /\ stdout' = Append(stdout, MemoryGet(address_pointer))
            /\ Advance(program_counter)
    /\ UNCHANGED <<address_pointer, cells, stdin, stdin_read>>

\* An Input that stores 0 at the end of standard input.
input_zero_at_end ==
    /\ Dispatch("Comma")
    /\ IF ~IndexInBounds(address_pointer)
       THEN Panic(INDEX_PANIC) /\ UNCHANGED <<cells, stdin, stdin_read>>
       ELSE IF stdin = <<>>
       THEN /\ cells' = MemorySet(address_pointer, 0)
            /\ Advance(program_counter)
            /\ UNCHANGED <<stdin, stdin_read>>
       ELSE /\ stdin' = Tail(stdin)
            /\ stdin_read' = Append(stdin_read, Head(stdin))
            /\ cells' = MemorySet(address_pointer, Head(stdin))
            /\ Advance(program_counter)
    /\ UNCHANGED <<address_pointer, stdout>>

\* The byte is read before Memory::set indexes the cells.
input ==
    /\ Dispatch("Comma")
    /\ IF stdin = <<>>
       THEN Panic("No input") /\ UNCHANGED <<cells, stdin, stdin_read>>
       ELSE /\ stdin' = Tail(stdin)
            /\ stdin_read' = Append(stdin_read, Head(stdin))
            /\ IF ~IndexInBounds(address_pointer)
               THEN Panic(INDEX_PANIC) /\ UNCHANGED cells
               ELSE /\ cells' = MemorySet(address_pointer, Head(stdin))
                    /\ Advance(program_counter)
    /\ UNCHANGED <<address_pointer, stdout>>

\* The scan of find_matching_closing from index on, open_brackets so far.
RECURSIVE ScanClosing(_, _)
ScanClosing(index, open_brackets) ==
    IF index >= Len(instructions) THEN NO_INDEX
    ELSE LET token == instructions[index + 1] IN
         IF token = "BracketOpen"
         THEN ScanClosing(index + 1, open_brackets + 1)
         ELSE IF token = "BracketClose"
         THEN IF open_brackets = 0 THEN index
              ELSE ScanClosing(index + 1, open_brackets - 1)
         ELSE ScanClosing(index + 1, open_brackets)

\* A search that answers the last index where the scan finds no match.
find_matching_closing_or_last ==
    IF ScanClosing(program_counter, 0) = NO_INDEX
    THEN Len(instructions) - 1
    ELSE ScanClosing(program_counter, 0)

find_matching_closing == ScanClosing(program_counter, 0)

\* The scan of find_matching_opening over the indices below bound, downwards.
RECURSIVE ScanOpening(_, _)
ScanOpening(bound, close_brackets) ==
    IF bound = 0 THEN NO_INDEX
    ELSE LET index == bound - 1
             token == instructions[index + 1]
         IN  IF token = "BracketOpen"
             THEN IF close_brackets = 0 THEN index
                  ELSE ScanOpening(index, close_brackets - 1)
             ELSE IF token = "BracketClose"
             THEN ScanOpening(index, close_brackets + 1)
             ELSE ScanOpening(index, close_brackets)

\* A search that answers the nearest LoopStart below, whatever the nesting.
find_matching_opening_nearest ==
    LET below == {k \in 0..(program_counter - 1) :
                     instructions[k + 1] = "BracketOpen"}
    IN  IF below = {} THEN NO_INDEX
        ELSE CHOOSE k \in below : \A m \in below : m <= k

find_matching_opening == ScanOpening(program_counter, 0)

\* A LoopStart that searches its LoopEnd before it tests the cell.
loop_start_eager ==
    /\ Dispatch("BracketOpen")
    /\ IF find_matching_closing = NO_INDEX
       THEN Panic("No matching closing bracket found")
       ELSE IF ~IndexInBounds(address_pointer)
       THEN Panic(INDEX_PANIC)
       ELSE IF MemoryGet(address_pointer) = 0
       THEN Advance(find_matching_closing)
       ELSE Advance(program_counter)
    /\ UNCHANGED <<address_pointer, cells, stdin, stdout, stdin_read>>

loop_start ==
    /\ Dispatch("BracketOpen")
    /\ IF ~IndexInBounds(address_pointer)
       THEN Panic(INDEX_PANIC)
       ELSE IF MemoryGet(address_pointer) = 0
       THEN IF find_matching_closing = NO_INDEX
            THEN Panic("No matching closing bracket found")
            ELSE Advance(find_matching_closing)
       ELSE Advance(program_counter)
    /\ UNCHANGED <<address_pointer, cells, stdin, stdout, stdin_read>>

loop_end ==
    /\ Dispatch("BracketClose")
    /\ IF ~IndexInBounds(address_pointer)
       THEN Panic(INDEX_PANIC)
       ELSE IF MemoryGet(address_pointer) # 0
       THEN IF find_matching_opening = NO_INDEX
            THEN Panic("No matching opening bracket found")
            ELSE Advance(find_matching_opening)
       ELSE Advance(program_counter)
    /\ UNCHANGED <<address_pointer, cells, stdin, stdout, stdin_read>>

\* One iteration of run's loop: the instruction is fetched and dispatched, the
\* operation ends with Advance. The operations are the disjuncts of tick.
tick ==
    \/ move_left
    \/ move_right
    \/ increment
    \/ decrement
    \/ output
    \/ input
    \/ loop_start
    \/ loop_end

\* run's loop ends, run returns and main with it.
run_exit ==
    /\ status = "running"
    /\ ~RunCondition
    /\ status' = "exited"
    /\ UNCHANGED <<panic_message, overflow_checks, source, instructions,
                   program_counter, address_pointer, cells, stdin, stdout,
                   previous_counter, stdin_read>>

Next == main \/ tick \/ run_exit

Spec == Init /\ [][Next]_vars

----------------------------------------------------------------------------
(* Vocabulary of the properties *)

\* The run is about to execute the instruction token.
At(token) ==
    /\ status = "running"
    /\ program_counter < Len(instructions)
    /\ instructions[program_counter + 1] = token

\* The address pointer is on a cell.
OnCell == address_pointer < Len(cells)

CurrentCell == cells[address_pointer + 1]

NumberOf(token, tokens) == Cardinality({k \in DOMAIN tokens : tokens[k] = token})

\* The number of token among the instructions at the indices lo..hi.
Between(token, lo, hi) ==
    Cardinality({k \in lo..hi : instructions[k + 1] = token})

\* The instructions at lo..hi nest properly: no prefix closes more loops than
\* it opens, and the whole closes as many as it opens.
Nested(lo, hi) ==
    /\ \A m \in lo..hi :
          Between("BracketClose", lo, m) <= Between("BracketOpen", lo, m)
    /\ Between("BracketClose", lo, hi) = Between("BracketOpen", lo, hi)

\* The LoopStart at i and the LoopEnd at j delimit one loop.
Matches(i, j) ==
    /\ 0 <= i /\ i < j /\ j < Len(instructions)
    /\ instructions[i + 1] = "BracketOpen"
    /\ instructions[j + 1] = "BracketClose"
    /\ Nested(i + 1, j - 1)

Indices == 0..(Len(instructions) - 1)

----------------------------------------------------------------------------
(* C1: a LoopStart executed on a zero cell, whose matching LoopEnd (by      *)
(* balanced nesting) is at index j, leaves the program counter at j + 1.    *)
(* The code does not do this: find_matching_closing starts its scan at the  *)
(* LoopStart itself and counts it, so it looks for one LoopEnd too many.    *)
C1_LoopStartSkipsPastMatch ==
    [][\A j \in Indices :
          (At("BracketOpen") /\ OnCell /\ CurrentCell = 0
              /\ Matches(program_counter, j))
          => (status' = "running" /\ program_counter' = j + 1)]_vars

----------------------------------------------------------------------------
(* C2: a LoopEnd executed on a nonzero cell, whose matching LoopStart (by   *)
(* balanced nesting) is at index i, leaves the program counter at i + 1.    *)
C2_LoopEndJumpsToBody ==
    [][\A i \in Indices :
          (At("BracketClose") /\ OnCell /\ CurrentCell # 0
              /\ Matches(i, program_counter))
          => (status' = "running" /\ program_counter' = i + 1)]_vars

\* A LoopEnd has jumped back over a loop that holds another loop.
C2_Witness ==
    /\ status = "running"
    /\ previous_counter # NO_INDEX
    /\ instructions[previous_counter + 1] = "BracketClose"
    /\ program_counter >= 1
    /\ Matches(program_counter - 1, previous_counter)
    /\ \E k \in program_counter..(previous_counter - 1) :
          instructions[k + 1] = "BracketOpen"

----------------------------------------------------------------------------
(* C3: a MoveRight whose resulting address pointer is no index of the       *)
(* memory (pointer >= length) panics. The code compares with >, so the move *)
(* to pointer = length is accepted.                                        *)
C3_MoveRightFatalAtEnd ==
    [][(At("AngleBracketClose") /\ address_pointer + 1 >= Len(cells))
          => status' = "panicked"]_vars

----------------------------------------------------------------------------
(* C4: a MoveLeft executed with the address pointer at 0 panics, whatever   *)
(* the memory length; the run never goes on with a wrapped pointer.         *)
C4_MoveLeftFromZeroFatal ==
    [][(At("AngleBracketOpen") /\ address_pointer = 0)
          => status' = "panicked"]_vars

\* The pointer wrapped (a build without overflow checks) and the run panicked,
\* with a memory that has cells.
C4_Witness ==
    /\ status = "panicked"
    /\ panic_message = "Out of bounds"
    /\ instructions[program_counter + 1] = "AngleBracketOpen"
    /\ address_pointer = USIZE_MAX
    /\ Len(cells) > 0

----------------------------------------------------------------------------
(* C5: Increment and Decrement on a cell always succeed and leave           *)
(* (v + 1) mod 256 and (v - 1) mod 256. The code computes v + 1 and v - 1   *)
(* with the plain operators, which panic on overflow in a build with        *)
(* overflow checks.                                                         *)
C5_IncDecWrap ==
    [][/\ (At("Plus") /\ OnCell)
            => /\ status' = "running"
               /\ cells' = [cells EXCEPT ![address_pointer + 1] = (@ + 1) % 256]
       /\ (At("Minus") /\ OnCell)
            => /\ status' = "running"
               /\ cells' = [cells EXCEPT ![address_pointer + 1] = (@ - 1) % 256]
      ]_vars

----------------------------------------------------------------------------
(* C6: the memory made for the run has as many cells as the program has     *)
(* Increment tokens (none included), every cell 0 when it is made, and its  *)
(* length is the same after every step of the run.                          *)
C6_MemorySizedByIncrements ==
    [][/\ status' # "start" => Len(cells') = NumberOf("Plus", instructions')
       /\ status = "start" => \A k \in DOMAIN cells' : cells'[k] = 0
       /\ status # "start" => Len(cells') = Len(cells)]_vars

\* A run has ended with three cells, after writing to them.
C6_Witness ==
    /\ status = "exited"
    /\ NumberOf("Plus", instructions) = 3
    /\ Len(cells) = 3
    /\ cells[1] # 0

----------------------------------------------------------------------------
(* C7: tokenize returns the recognized characters of the source, in source  *)
(* order, mapped by the fixed table; inserting or removing any other        *)
(* character changes nothing; unbalanced brackets are accepted.             *)
\* The table, with each instruction under the name of the Token that tick
\* dispatches to its operation.
MoveLeft == "AngleBracketOpen"
MoveRight == "AngleBracketClose"
Increment == "Plus"
Decrement == "Minus"
Output == "Dot"
Input == "Comma"
LoopStart == "BracketOpen"
LoopEnd == "BracketClose"

TokenTable ==
    [c \in Recognized |->
        CASE c = "<" -> MoveLeft
          [] c = ">" -> MoveRight
          [] c = "+" -> Increment
          [] c = "-" -> Decrement
          [] c = "." -> Output
          [] c = "," -> Input
          [] c = "[" -> LoopStart
          [] c = "]" -> LoopEnd]

RecognizedPositions(text) == {k \in DOMAIN text : text[k] \in Recognized}

\* The place among the recognized characters of the one at position k.
Rank(text, k) == Cardinality({m \in RecognizedPositions(text) : m <= k})

IsTokenization(text, tokens) ==
    /\ Len(tokens) = Cardinality(RecognizedPositions(text))
    /\ \A k \in RecognizedPositions(text) :
          tokens[Rank(text, k)] = TokenTable[text[k]]

InsertAt(text, k, char) ==
    SubSeq(text, 1, k) \o <<char>> \o SubSeq(text, k + 1, Len(text))

RemoveAt(text, k) == SubSeq(text, 1, k - 1) \o SubSeq(text, k + 1, Len(text))

C7_TokenizeKeepsRecognized ==
    [][status = "start" =>
          /\ status' = "running"
          /\ IsTokenization(source, instructions')
          /\ \A k \in 0..Len(source) :
                tokenize(InsertAt(source, k, "x")) = instructions'
          /\ \A k \in DOMAIN source :
                source[k] \notin Recognized
                    => tokenize(RemoveAt(source, k)) = instructions']_vars

\* A source with another character between an unmatched LoopEnd and an
\* Increment has been tokenized.
C7_Witness ==
    /\ status = "running"
    /\ previous_counter = NO_INDEX
    /\ source = <<"]", "x", "+">>
    /\ instructions = <<"BracketClose", "Plus">>

----------------------------------------------------------------------------
(* C8: a LoopStart with no matching LoopEnd after it, executed on a zero    *)
(* cell, panics at that step.                                               *)
C8_UnterminatedLoopStartFatal ==
    [][(At("BracketOpen") /\ OnCell /\ CurrentCell = 0
           /\ ~ \E j \in Indices : Matches(program_counter, j))
          => status' = "panicked"]_vars

\* The search of a LoopStart with no matching LoopEnd has failed.
C8_Witness ==
    /\ status = "panicked"
    /\ panic_message = "No matching closing bracket found"
    /\ instructions[program_counter + 1] = "BracketOpen"
    /\ ~ \E j \in Indices : Matches(program_counter, j)

----------------------------------------------------------------------------
(* C9: in a program with no Increment token, an instruction that accesses a *)
(* cell panics and prints nothing; the program ,. stops at its first        *)
(* instruction with no output, whatever the input.                          *)
CellAccess == {"Plus", "Minus", "Dot", "Comma", "BracketOpen", "BracketClose"}

C9_NoCellsAccessFatal ==
    [][/\ (NumberOf("Plus", instructions) = 0 /\ \E t \in CellAccess : At(t))
            => (status' = "panicked" /\ stdout' = stdout)
       /\ instructions' = <<"Comma", "Dot">>
            => (program_counter' = 0 /\ stdout' = <<>> /\ status' # "exited")
      ]_vars

\* The program ,. has read the byte 65 and panicked on the cell, with no
\* output.
C9_Witness ==
    /\ instructions = <<"Comma", "Dot">>
    /\ status = "panicked"
    /\ panic_message = INDEX_PANIC
    /\ program_counter = 0
    /\ stdin_read = <<65>>
    /\ stdout = <<>>

----------------------------------------------------------------------------
(* C10: Input on a cell: with a next byte b on standard input, that one     *)
(* byte is consumed and the cell becomes b; with standard input exhausted,  *)
(* the run panics and no cell changes.                                      *)
C10_InputReadsOneByte ==
    [][(At("Comma") /\ OnCell) =>
          IF stdin # <<>>
          THEN /\ status' = "running"
               /\ stdin' = Tail(stdin)
               /\ cells' = [cells EXCEPT ![address_pointer + 1] = Head(stdin)]
          ELSE /\ status' = "panicked"
               /\ cells' = cells]_vars

\* An Input has stored the byte 65 in the cell at the pointer.
C10_Witness ==
    /\ status = "running"
    /\ previous_counter # NO_INDEX
    /\ instructions[previous_counter + 1] = "Comma"
    /\ OnCell
    /\ CurrentCell = 65
    /\ stdin_read = <<65>>

----------------------------------------------------------------------------
(* C11: a program of n Increments and an Output, 1 <= n <= 255, terminates   *)
(* normally with n cells, cell 0 holding n, one output character of code n, *)
(* and no byte read from standard input.                                    *)
IncrementsBeforeOutput == Len(instructions) - 1

IsIncrementsThenOutput ==
    /\ status # "start"
    /\ IncrementsBeforeOutput \in 1..255
    /\ \A k \in 1..IncrementsBeforeOutput : instructions[k] = "Plus"
    /\ instructions[Len(instructions)] = "Dot"

\* Every state of such a run: it has not panicked, it can take its next step
\* while it runs, the Increments done so far are in cell 0, and at the end
\* the output is the one character n.
C11_IncrementsThenOutput ==
    IsIncrementsThenOutput =>
        LET n == IncrementsBeforeOutput IN
        /\ status \in {"running", "exited"}
        /\ status = "running" => ENABLED Next
        /\ Len(cells) = n
        /\ stdin_read = <<>>
        /\ program_counter <= n => (cells[1] = program_counter /\ stdout = <<>>)
        /\ program_counter > n => (cells[1] = n /\ stdout = <<n>>)
        /\ status = "exited" => program_counter = n + 1

\* The run of 255 Increments and an Output has ended.
C11_Witness ==
    /\ IsIncrementsThenOutput
    /\ status = "exited"
    /\ Len(cells) = 255
    /\ cells[1] = 255
    /\ stdout = <<255>>
    /\ stdin # <<>>
    /\ stdin_read = <<>>

----------------------------------------------------------------------------
(* C12: the run stops normally exactly when the program counter is >= the   *)
(* program length; whenever tick is entered the counter is an index of the  *)
(* program, so the fetch finds an instruction; after every step, a jump     *)
(* included, the counter is <= the program length.                          *)
C12_CounterInProgram ==
    status # "start" =>
        /\ program_counter \in 0..Len(instructions)
        /\ status = "exited" => program_counter >= Len(instructions)
        /\ status = "running" =>
              /\ (program_counter >= Len(instructions)) <=> ENABLED run_exit
              /\ (program_counter >= Len(instructions)) => ~ENABLED tick
              /\ RunCondition => InstructionsGet(program_counter) \in Token

\* A jump of a LoopStart went to the end of the program and the run ended.
C12_Witness ==
    /\ status = "exited"
    /\ previous_counter # NO_INDEX
    /\ instructions[previous_counter + 1] = "BracketOpen"
    /\ previous_counter + 1 < program_counter
    /\ program_counter = Len(instructions)

----------------------------------------------------------------------------
(* C13: a missing counterpart is found out only by a jump that is taken: a  *)
(* LoopStart on a nonzero cell and a LoopEnd on a zero cell go on to the    *)
(* next instruction whether or not a counterpart exists, and the panics of  *)
(* the searches come only from a LoopStart on a zero cell or a LoopEnd on a *)
(* nonzero cell; +[ and +-] terminate normally.                             *)
SearchPanics == {"No matching closing bracket found",
                 "No matching opening bracket found"}

C13_UnbalancedFoundOnlyByJump ==
    [][/\ (At("BracketOpen") /\ OnCell /\ CurrentCell # 0)
            => (status' = "running" /\ program_counter' = program_counter + 1)
       /\ (At("BracketClose") /\ OnCell /\ CurrentCell = 0)
            => (status' = "running" /\ program_counter' = program_counter + 1)
       /\ panic_message' \in SearchPanics
            => \/ At("BracketOpen") /\ OnCell /\ CurrentCell = 0
               \/ At("BracketClose") /\ OnCell /\ CurrentCell # 0
       /\ instructions' \in {<<"Plus", "BracketOpen">>,
                             <<"Plus", "Minus", "BracketClose">>}
            => status' # "panicked"
      ]_vars

\* The program +[ has ended normally: its LoopStart, which has no LoopEnd,
\* was executed on a nonzero cell.
C13_Witness ==
    /\ status = "exited"
    /\ instructions = <<"Plus", "BracketOpen">>
    /\ previous_counter = 1
    /\ cells = <<1>>

----------------------------------------------------------------------------
(* C14: a successful step leaves the program as it is; only MoveLeft and    *)
(* MoveRight change the address pointer, by exactly 1; only Increment,      *)
(* Decrement and Input change the memory, and only the cell at the address  *)
(* pointer; Output, LoopStart and LoopEnd change neither.                   *)
C14_FrameOfAStep ==
    [][(status = "running" /\ status' = "running") =>
          /\ instructions' = instructions
          /\ At("AngleBracketOpen") => address_pointer' = address_pointer - 1
          /\ At("AngleBracketClose") => address_pointer' = address_pointer + 1
          /\ ~(At("AngleBracketOpen") \/ At("AngleBracketClose"))
                => address_pointer' = address_pointer
          /\ ~(At("Plus") \/ At("Minus") \/ At("Comma")) => cells' = cells
          /\ Len(cells') = Len(cells)
          /\ \A k \in DOMAIN cells :
                k # address_pointer + 1 => cells'[k] = cells[k]
      ]_vars

\* An Increment has written the second cell and left the first.
C14_Witness ==
    /\ status = "running"
    /\ previous_counter # NO_INDEX
    /\ instructions[previous_counter + 1] = "Plus"
    /\ address_pointer = 1
    /\ cells = <<0, 1>>

----------------------------------------------------------------------------
(* C15: a successful step ends with the program counter advanced by 1 after *)
(* the dispatch: old + 1 for MoveLeft, MoveRight, Increment, Decrement,     *)
(* Output, Input, a LoopStart on a nonzero cell and a LoopEnd on a zero     *)
(* cell; the index the search returned, + 1, for a jump that is taken.      *)
JumpTaken ==
    \/ At("BracketOpen") /\ OnCell /\ CurrentCell = 0
    \/ At("BracketClose") /\ OnCell /\ CurrentCell # 0

C15_CounterAdvancesByOne ==
    [][(status = "running" /\ status' = "running") =>
          /\ ~JumpTaken => program_counter' = program_counter + 1
          /\ (JumpTaken /\ At("BracketOpen"))
                => program_counter' = find_matching_closing + 1
          /\ (JumpTaken /\ At("BracketClose"))
                => program_counter' = find_matching_opening + 1
      ]_vars

\* A LoopStart at index 0 has jumped: the search returned 2, the counter is 3.
C15_Witness ==
    /\ status = "running"
    /\ previous_counter = 0
    /\ instructions = <<"BracketOpen", "BracketClose", "BracketClose", "Plus">>
    /\ program_counter = 3

----------------------------------------------------------------------------
(* C16: in every state in which the run has not failed, the address pointer *)
(* is between 0 and the memory length, both included.                       *)
C16_PointerWithinLength ==
    status # "panicked" => (0 <= address_pointer /\ address_pointer <= Len(cells))

\* The run goes on with the pointer at the memory length, past the last cell.
C16_Witness ==
    /\ status = "running"
    /\ Len(cells) > 0
    /\ address_pointer = Len(cells)
    /\ previous_counter # NO_INDEX
    /\ instructions[previous_counter + 1] = "AngleBracketClose"

----------------------------------------------------------------------------
(* C17: in a program with no LoopStart and no LoopEnd, whatever the input,  *)
(* every step that leaves the run running raises the program counter by 1; *)
(* the ticks taken are those of the indices below the counter, one each, so *)
(* they are at most the program length; and the run has a step to take      *)
(* until it has come to its normal end or to a panic.                       *)
LoopFree ==
    /\ status # "start"
    /\ \A k \in DOMAIN instructions :
          instructions[k] \notin {"BracketOpen", "BracketClose"}

Ended == status \in {"exited", "panicked"}

C17_LoopFreeTerminates ==
    /\ [][(LoopFree /\ status = "running" /\ status' = "running")
             => program_counter' = program_counter + 1]_vars
    /\ [](LoopFree =>
             /\ program_counter <= Len(instructions)
             /\ previous_counter =
                   IF status = "panicked" THEN program_counter
                   ELSE program_counter - 1
             /\ ~Ended => ENABLED Next)

\* The program +,. has ended after its three steps, with the byte 65 printed.
C17_Witness ==
    /\ status = "exited"
    /\ instructions = <<"Plus", "Comma", "Dot">>
    /\ previous_counter = 2
    /\ program_counter = 3
    /\ stdout = <<65>>

====
